---------------------------- MODULE Spec2Model ----------------------------
(* Reconciliation of a Lambda layer (library/aws_lambda_layer.py) against   *)
(* an S3 bucket and the Lambda management plane.  One action per call of    *)
(* manage_lambda_layer / destroy_layer, plus the writes other actors make   *)
(* to the bucket.  Every call is appended to the history `hist` together    *)
(* with its arguments, its result dict and the remote calls it issued.      *)
EXTENDS Integers, Sequences, FiniteSets, TLC

VARIABLES
    versioning,     \* whether the bucket has versioning enabled
    s3,             \* object_key -> sequence of stored object versions (last = current)
    layers,         \* layer name -> set of published layer versions
    next_version,   \* layer name -> version number the next publish is given
    hist,           \* calls made so far, oldest first
    frames          \* process id -> locals of a call that runs step by step

vars == <<versioning, s3, layers, next_version, hist, frames>>

-----------------------------------------------------------------------------
(* Bounds *)

MaxCalls == 3           \* calls of the module in one behaviour of Spec
MaxScenarioCalls == 4   \* calls of the module in one behaviour of SpecScenario
MaxForeignPuts == 1     \* objects other actors have put before the first call
MaxModuleRuns == 3      \* runs and lookups in one behaviour of SpecModule
MaxDestroyCalls == 4    \* calls in one behaviour of SpecDestroy
MaxWalkCalls == 3       \* calls in one behaviour of SpecWalk
MaxPages == 3           \* pages the management plane splits one listing into

-----------------------------------------------------------------------------
(* Values *)

None == "None"

Names == {"temp-lambda-layer"}
Buckets == {"temp-bucket"}
Keys == {"layer.zip"}
Paths == {"/tmp/layer.zip"}
Bundles == {"A", "B"}                 \* the bytes a file or an object can hold
MetadataKeys == {"sha256", "unique"}
RuntimeLists == {<< >>, <<"python3.6", "python3.7">>, <<"python3.7", "python3.6">>}

(* SHA-256, base64-encoded: one digest per byte string, distinct for        *)
(* distinct byte strings.                                                   *)
sha256_b64(body) ==
    CASE body = "A" -> "sha256:A"
      [] body = "B" -> "sha256:B"

Checksums == {sha256_b64(b) : b \in Bundles}

get_file_checksum(file) == sha256_b64(file)

VersionIdTokens == <<"v1", "v2", "v3", "v4", "v5", "v6", "v7", "v8">>
VersionIdTokenSet == {VersionIdTokens[i] : i \in 1..Len(VersionIdTokens)}

LayerArn(name) == <<"arn:aws:lambda:layer", name>>
LayerVersionArn(name, number) == <<"arn:aws:lambda:layer", name, number>>

Max(S) == CHOOSE x \in S : \A y \in S : y <= x

-----------------------------------------------------------------------------
(* Object store *)

NoSuchKey == [NoSuchKey |-> TRUE]

\* s3_client.get_object(Bucket, Key[, VersionId])
get_object(store, object_key, object_version) ==
    LET stored == store[object_key]
        hits == {i \in 1..Len(stored) : stored[i].VersionId = object_version}
    IN  IF Len(stored) = 0 THEN NoSuchKey
        ELSE IF object_version = None THEN stored[Len(stored)]
        ELSE IF hits = {} THEN NoSuchKey
        ELSE stored[Max(hits)]

\* s3_client.put_object(Body, Bucket, Key, Metadata): the store after the put
put_object(store, versioned, object_key, body, meta) ==
    LET stored == store[object_key]
        obj == [VersionId |-> IF versioned THEN VersionIdTokens[Len(stored) + 1] ELSE None,
                Body |-> body,
                Metadata |-> meta]
    IN  [store EXCEPT ![object_key] = IF versioned THEN Append(stored, obj) ELSE <<obj>>]

\* the response of that put: {'VersionId': ...} on a versioned bucket only
put_object_response(store, versioned, object_key) ==
    IF versioned THEN [VersionId |-> VersionIdTokens[Len(store[object_key]) + 1]]
    ELSE [VersionId |-> ""]

\* fetch_s3_checksum without the download: an object lacking the metadata key
\* is answered like a missing object
fetch_s3_checksum_metadata_only(store, object_key, object_version, metadata) ==
    LET obj == get_object(store, object_key, object_version)
    IN  IF obj = NoSuchKey \/ obj.Metadata[metadata] = None
        THEN [checksum |-> None, downloaded |-> None]
        ELSE [checksum |-> obj.Metadata[metadata], downloaded |-> "False"]

\* fetch_s3_checksum taking the else branch of line 155 for every object
fetch_s3_checksum_metadata_trusted(store, object_key, object_version, metadata) ==
    LET obj == get_object(store, object_key, object_version)
    IN  IF obj = NoSuchKey THEN [checksum |-> None, downloaded |-> None]
        ELSE [checksum |-> obj.Metadata[metadata], downloaded |-> "False"]

fetch_s3_checksum(store, object_key, object_version, metadata) ==
    LET obj == get_object(store, object_key, object_version)
    IN  IF obj = NoSuchKey THEN [checksum |-> None, downloaded |-> None]
        ELSE IF obj.Metadata[metadata] = None
             THEN [checksum |-> sha256_b64(obj.Body), downloaded |-> "True"]
             ELSE [checksum |-> obj.Metadata[metadata], downloaded |-> "False"]

\* upload_file: the Metadata argument of its put
upload_metadata(checksum, metadata) ==
    [k \in MetadataKeys |-> IF k = metadata THEN checksum ELSE None]

\* upload_file returning None whatever the put answered
upload_file_without_token(store, versioned, object_key) ==
    None

\* upload_file: its return value, obj.get('VersionId', '') or None
upload_file(store, versioned, object_key) ==
    LET obj == put_object_response(store, versioned, object_key)
    IN  IF obj.VersionId = "" THEN None ELSE obj.VersionId

-----------------------------------------------------------------------------
(* Lambda management plane *)

VersionNumbers(published) == {v.Version : v \in published}

\* lambda_client.get_layer_version(LayerName, VersionNumber)
get_layer_version(published, number) ==
    CHOOSE v \in published : v.Version = number

\* lambda_client.publish_layer_version(LayerName, Content[, CompatibleRuntimes]):
\* the plane reads the object the Content names and records the digest of its bytes
publish_layer_version(store, name, number, content, kwargs) ==
    LET obj == get_object(store, content.S3Key,
                          IF "S3ObjectVersion" \in DOMAIN content
                          THEN content.S3ObjectVersion ELSE None)
    IN  [LayerArn |-> LayerArn(name),
         LayerVersionArn |-> LayerVersionArn(name, number),
         Version |-> number,
         Content |-> [CodeSha256 |-> sha256_b64(obj.Body)]] @@ kwargs

(* lambda_client.list_layer_versions answers in pages: a chain of responses, *)
(* each but the last carrying a NextMarker.  Together the pages hold every   *)
(* version; a page may be empty, and a later page may repeat an earlier one. *)
Paginations(numbers) ==
    {<<numbers>>, <<numbers, numbers>>} \cup
    {<<p, numbers \ p>> : p \in SUBSET numbers}

\* the response to the i-th list_layer_versions call of a walk
list_layer_versions(pages, i) ==
    IF i < Len(pages)
    THEN [LayerVersions |-> pages[i], NextMarker |-> i + 1]
    ELSE [LayerVersions |-> pages[i]]

\* the marker read under another key than the response carries it
HasMarker_wrong_key(response) == "Marker" \in DOMAIN response

\* marker = response.get('NextMarker', None); while marker: ...
HasMarker(response) == "NextMarker" \in DOMAIN response

(* The marker walk of get_layer_version_info and destroy_layer: the first   *)
(* request, then one more request while the last response had a NextMarker. *)
RECURSIVE marker_walk(_, _, _)
marker_walk(pages, response, versions) ==
    LET seen == versions \cup response.LayerVersions
    IN  IF HasMarker(response)
        THEN marker_walk(pages, list_layer_versions(pages, response.NextMarker), seen)
        ELSE seen

NoLayer == [NoLayer |-> TRUE]

\* the marker walk of one function call, as it shows among the remote calls it
\* issued: lambda_client.list_layer_versions(LayerName=name[, NextMarker])
list_call(name) == [op |-> "list_layer_versions", LayerName |-> name]

\* get_layer_version_info without the checksum filter
matching_versions_unfiltered(published, local_checksum, all_versions) ==
    all_versions

\* get_layer_version_info: the version numbers kept after the checksum filter
matching_versions(published, local_checksum, all_versions) ==
    {n \in all_versions :
        \/ local_checksum = None
        \/ local_checksum = get_layer_version(published, n).Content.CodeSha256}

\* get_layer_version_info without the marker loop: the first page only
get_layer_version_info_first_page(published, local_checksum, pages) ==
    LET all_versions == list_layer_versions(pages, 1).LayerVersions
        versions == matching_versions(published, local_checksum, all_versions)
    IN  IF versions = {} THEN NoLayer
        ELSE get_layer_version(published, Max(versions))

get_layer_version_info(published, local_checksum, pages) ==
    LET all_versions == marker_walk(pages, list_layer_versions(pages, 1), {})
        versions == matching_versions(published, local_checksum, all_versions)
    IN  IF versions = {} THEN NoLayer
        ELSE get_layer_version(published, Max(versions))

RECURSIVE Ascending(_)
Ascending(S) ==
    IF S = {} THEN << >>
    ELSE LET m == CHOOSE x \in S : \A y \in S : x <= y
         IN  <<m>> \o Ascending(S \ {m})

\* destroy_layer without the marker loop: the first page only
destroy_versions_first_page(pages) ==
    list_layer_versions(pages, 1).LayerVersions

\* destroy_layer: the version numbers it collects
destroy_versions(pages) ==
    marker_walk(pages, list_layer_versions(pages, 1), {})

(* destroy_layer: deletes every collected version; returns bool(versions).  *)
destroy_layer(published, name, pages) ==
    LET versions == destroy_versions(pages)
        order == Ascending(versions)
    IN  [published |-> {v \in published : v.Version \notin versions},
         calls |-> <<list_call(name)>> \o
                  [i \in 1..Len(order) |->
                      [op |-> "delete_layer_version", LayerName |-> name,
                       VersionNumber |-> order[i]]],
         returned |-> versions # {}]

-----------------------------------------------------------------------------
(* manage_lambda_layer *)

PyTrue == "True"

\* lines 283-287 without the runtimes of the version
layer_result_without_runtimes(layer) ==
    [arn |-> layer.LayerArn,
     version |-> layer.Version,
     version_arn |-> layer.LayerVersionArn,
     version_checksum |-> layer.Content.CodeSha256,
     runtimes |-> << >>]

\* the keys result[...] gets from a layer version (lines 283-287)
layer_result(layer) ==
    [arn |-> layer.LayerArn,
     version |-> layer.Version,
     version_arn |-> layer.LayerVersionArn,
     version_checksum |-> layer.Content.CodeSha256,
     runtimes |-> IF "CompatibleRuntimes" \in DOMAIN layer
                  THEN layer.CompatibleRuntimes ELSE << >>]

\* lines 323-327 without line 323
publish_result_unchanged(layer) ==
    [arn |-> layer.LayerArn,
     version |-> layer.Version,
     version_arn |-> layer.LayerVersionArn,
     version_checksum |-> layer.Content.CodeSha256]

\* lines 323-327 keeping only line 323
publish_result_unrecorded(layer) ==
    [changed |-> TRUE]

\* the keys result[...] gets from the response of a publish (lines 323-327)
publish_result(layer) ==
    [changed |-> TRUE,
     arn |-> layer.LayerArn,
     version |-> layer.Version,
     version_arn |-> layer.LayerVersionArn,
     version_checksum |-> layer.Content.CodeSha256]

\* line 305 without the comparison: upload only what is missing
needs_upload_if_missing(s3_checksum, local_checksum) ==
    s3_checksum = None

\* line 305 with a test that is always true: not s3_checksum or local_checksum
needs_upload_always(s3_checksum, local_checksum) ==
    s3_checksum = None \/ local_checksum # None

\* line 305: if not s3_checksum or local_checksum != s3_checksum
needs_upload(s3_checksum, local_checksum) ==
    s3_checksum = None \/ local_checksum # s3_checksum

Range(f) == {f[i] : i \in DOMAIN f}

\* lines 311-328 without the condition of line 310
needs_publish_always(layer, result, local_checksum, runtimes) ==
    TRUE

\* line 310 without the comparison of the runtimes
needs_publish_checksum_only(layer, result, local_checksum, runtimes) ==
    \/ layer = NoLayer
    \/ result.version_checksum # local_checksum

\* line 310 comparing the runtimes as sets
needs_publish_unordered(layer, result, local_checksum, runtimes) ==
    \/ layer = NoLayer
    \/ result.version_checksum # local_checksum
    \/ Range(result.runtimes) # Range(runtimes)

\* line 310 publishing also after every upload
needs_publish_after_upload(layer, result, local_checksum, runtimes) ==
    \/ layer = NoLayer
    \/ result.version_checksum # local_checksum
    \/ result.runtimes # runtimes
    \/ result.changed

\* line 310: if not layer or result['version_checksum'] != local_checksum
\*           or result['runtimes'] != runtimes
needs_publish(layer, result, local_checksum, runtimes) ==
    \/ layer = NoLayer
    \/ result.version_checksum # local_checksum
    \/ result.runtimes # runtimes

\* lines 311-316: the Content argument of the publish
publish_content(bucket, object_key, object_version) ==
    IF object_version # None
    THEN [S3Bucket |-> bucket, S3Key |-> object_key, S3ObjectVersion |-> object_version]
    ELSE [S3Bucket |-> bucket, S3Key |-> object_key]

\* line 319: **({'CompatibleRuntimes': runtimes} if runtimes else {})
publish_kwargs(runtimes) ==
    IF runtimes # << >> THEN [CompatibleRuntimes |-> runtimes] ELSE << >>

Outcome(raised, result, calls, store, published, number) ==
    [raised |-> raised, result |-> result, calls |-> calls,
     s3 |-> store, layers |-> published, next_version |-> number]

\* lines 288-294 dropping what destroy_layer returns
manage_absent_unreported(a, layer, destroy_pages) ==
    LET destroyed == destroy_layer(layers[a.name], a.name, destroy_pages)
        result == IF layer # NoLayer
                  THEN [changed |-> TRUE] @@ layer_result(layer)
                  ELSE [changed |-> FALSE]
    IN  Outcome(FALSE, result, destroyed.calls, s3,
                [layers EXCEPT ![a.name] = destroyed.published], next_version)

(* state == 'absent' (lines 288-294), after get_layer_version_info *)
manage_absent(a, layer, destroy_pages) ==
    LET destroyed == destroy_layer(layers[a.name], a.name, destroy_pages)
        result == IF layer # NoLayer
                  THEN [changed |-> TRUE] @@ layer_result(layer)
                  ELSE [changed |-> destroyed.returned]
    IN  Outcome(FALSE, result, destroyed.calls, s3,
                [layers EXCEPT ![a.name] = destroyed.published], next_version)

(* state == 'present' (lines 296-330), after get_layer_version_info *)
manage_present(a, file, layer) ==
    LET fetched == fetch_s3_checksum(s3, a.object_key, a.object_version, a.metadata)
        local_checksum == get_file_checksum(file)
        result1 == [bucket |-> a.bucket,
                    object_version |-> a.object_version,
                    downloaded |-> fetched.downloaded]
                   @@ (IF layer # NoLayer THEN layer_result(layer) ELSE << >>)
                   @@ [changed |-> FALSE]
        upload == needs_upload(fetched.checksum, local_checksum)
        store == IF upload
                 THEN put_object(s3, versioning, a.object_key, file,
                                 upload_metadata(local_checksum, a.metadata))
                 ELSE s3
        object_version == IF upload
                          THEN upload_file(s3, versioning, a.object_key)
                          ELSE a.object_version
        result2 == IF upload THEN [changed |-> TRUE] @@ result1 ELSE result1
        publish == needs_publish(layer, result2, local_checksum, a.runtimes)
        content == publish_content(a.bucket, a.object_key, object_version)
        published == publish_layer_version(store, a.name, next_version[a.name],
                                           content, publish_kwargs(a.runtimes))
        result3 == IF publish THEN publish_result(published) @@ result2 ELSE result2
        calls == <<[op |-> "get_object", Bucket |-> a.bucket, Key |-> a.object_key,
                    VersionId |-> a.object_version]>>
                 \o (IF upload
                     THEN <<[op |-> "put_object", Bucket |-> a.bucket,
                             Key |-> a.object_key, Body |-> file,
                             Metadata |-> upload_metadata(local_checksum, a.metadata)]>>
                     ELSE << >>)
                 \o (IF publish
                     THEN <<[op |-> "publish_layer_version", LayerName |-> a.name,
                             Content |-> content,
                             kwargs |-> publish_kwargs(a.runtimes)]>>
                     ELSE << >>)
    IN  Outcome(FALSE, result3, calls, store,
                IF publish THEN [layers EXCEPT ![a.name] = @ \cup {published}] ELSE layers,
                IF publish THEN [next_version EXCEPT ![a.name] = @ + 1] ELSE next_version)

\* manage_lambda_layer with line 278 reading the file whatever the state
manage_lambda_layer_always_reads(a, file, pages, destroy_pages) ==
    IF a.path = None
    THEN Outcome(TRUE, [changed |-> FALSE], << >>, s3, layers, next_version)
    ELSE LET local_checksum == IF a.state = "absent" THEN PyTrue
                               ELSE get_file_checksum(file)
             layer == get_layer_version_info(layers[a.name], local_checksum, pages)
             out == IF a.state = "absent"
                    THEN manage_absent(a, layer, destroy_pages)
                    ELSE manage_present(a, file, layer)
         IN  [out EXCEPT !.calls = <<list_call(a.name)>> \o @]

\* manage_lambda_layer reading the file at line 298 only
manage_lambda_layer_reads_late(a, file, pages, destroy_pages) ==
    IF a.state # "absent" /\ a.path = None
    THEN Outcome(TRUE, [changed |-> FALSE],
                 <<list_call(a.name),
                   [op |-> "get_object", Bucket |-> a.bucket, Key |-> a.object_key,
                    VersionId |-> a.object_version]>>,
                 s3, layers, next_version)
    ELSE manage_lambda_layer_always_reads(a, file, pages, destroy_pages)

(* manage_lambda_layer(name, bucket, object_key, object_version, path,      *)
(* state, runtimes, metadata); `file` is what the file at `path` holds.     *)
manage_lambda_layer(a, file, pages, destroy_pages) ==
    IF a.state # "absent" /\ a.path = None
    THEN \* get_file_checksum(None) raises before any remote call
         Outcome(TRUE, [changed |-> FALSE], << >>, s3, layers, next_version)
    ELSE LET local_checksum == IF a.state = "absent" THEN PyTrue
                               ELSE get_file_checksum(file)
             layer == get_layer_version_info(layers[a.name], local_checksum, pages)
             out == IF a.state = "absent"
                    THEN manage_absent(a, layer, destroy_pages)
                    ELSE manage_present(a, file, layer)
         IN  [out EXCEPT !.calls = <<list_call(a.name)>> \o @]

-----------------------------------------------------------------------------
(* Calls *)

\* one call: its arguments, the remote state it started from, what it
\* returned (or that it raised) and the remote calls it issued, in order
Entry(call, a, file, out) ==
    [call |-> call, args |-> a, file |-> file,
     before |-> [s3 |-> s3, layers |-> layers, next_version |-> next_version],
     raised |-> out.raised, result |-> out.result, calls |-> out.calls]

\* how many of the calls so far were made by the module / by other actors
ModuleCalls == Cardinality({i \in 1..Len(hist) : hist[i].call # "put_object"})
ForeignPuts == Cardinality({i \in 1..Len(hist) : hist[i].call = "put_object"})

Apply(entry, out) ==
    /\ s3' = out.s3
    /\ layers' = out.layers
    /\ next_version' = out.next_version
    /\ hist' = Append(hist, entry)
    /\ UNCHANGED <<versioning, frames>>

\* the version ids a caller can name: those the bucket has handed out for the key
StoredVersionIds(object_key) ==
    {s3[object_key][i].VersionId : i \in 1..Len(s3[object_key])} \ {None}

\* (a caller that names an object version keeps the default metadata key)
PresentArgs ==
    {a \in [name : Names, bucket : Buckets, object_key : Keys,
            object_version : {None} \cup VersionIdTokenSet, path : Paths,
            state : {"present"}, runtimes : RuntimeLists, metadata : MetadataKeys] :
        /\ a.object_version \in {None} \cup StoredVersionIds(a.object_key)
        /\ (a.object_version # None => a.metadata = "sha256")}

\* the arguments of the tests: no object version, no runtimes, metadata='sha256'
DefaultPresentArgs ==
    {a \in PresentArgs :
        a.object_version = None /\ a.runtimes = << >> /\ a.metadata = "sha256"}

\* manage_lambda_layer(name, None, None, None, None, 'absent'), or with all set
AbsentArgs ==
    [name : Names, bucket : {None}, object_key : {None}, object_version : {None},
     path : {None}, state : {"absent"}, runtimes : {<< >>}, metadata : {"sha256"}]
    \cup
    [name : Names, bucket : Buckets, object_key : Keys, object_version : {None},
     path : Paths, state : {"absent"}, runtimes : {<< >>}, metadata : {"sha256"}]

\* state='present' without a path
UnreadableArgs ==
    [name : Names, bucket : Buckets, object_key : Keys, object_version : {None},
     path : {None}, state : {"present"}, runtimes : {<< >>}, metadata : {"sha256"}]

ManagePresent(a, file, limit) ==
    /\ ModuleCalls < limit
    /\ \E pages \in Paginations(VersionNumbers(layers[a.name])) :
         LET out == manage_lambda_layer(a, file, pages, pages)
         IN  Apply(Entry("manage_lambda_layer", a, file, out), out)

ManageAbsent(a, limit) ==
    /\ ModuleCalls < limit
    /\ \E pages \in Paginations(VersionNumbers(layers[a.name])) :
       \E destroy_pages \in Paginations(VersionNumbers(layers[a.name])) :
         LET out == manage_lambda_layer(a, None, pages, destroy_pages)
         IN  Apply(Entry("manage_lambda_layer", a, None, out), out)

ManageUnreadable(a, limit) ==
    /\ ModuleCalls < limit
    /\ LET out == manage_lambda_layer(a, None, << {} >>, << {} >>)
       IN  Apply(Entry("manage_lambda_layer", a, None, out), out)

\* destroy_layer(name), called directly
Destroy(name, limit) ==
    /\ ModuleCalls < limit
    /\ \E pages \in Paginations(VersionNumbers(layers[name])) :
         LET destroyed == destroy_layer(layers[name], name, pages)
             out == Outcome(FALSE, [returned |-> destroyed.returned], destroyed.calls,
                            s3, [layers EXCEPT ![name] = destroyed.published],
                            next_version)
         IN  Apply(Entry("destroy_layer", [name |-> name], None, out), out)

NoMetadata == [k \in MetadataKeys |-> None]

\* what the bucket holds when the module is first called is what other
\* actors have put there
ForeignPut(object_key, body, meta, limit) ==
    /\ ModuleCalls = 0
    /\ ForeignPuts < limit
    /\ LET out == Outcome(FALSE, << >>,
                          <<[op |-> "put_object", Bucket |-> "temp-bucket",
                             Key |-> object_key, Body |-> body, Metadata |-> meta]>>,
                          put_object(s3, versioning, object_key, body, meta),
                          layers, next_version)
       IN  Apply(Entry("put_object", [object_key |-> object_key, metadata |-> meta],
                       body, out), out)

\* another actor puts an object without metadata (tests: upload_sample_bundle)
upload_sample_bundle(object_key, body, limit) ==
    ForeignPut(object_key, body, NoMetadata, limit)

\* another actor puts an object and records a checksum of its own under 'sha256'
ForeignPutWithChecksum(object_key, body, checksum, limit) ==
    ForeignPut(object_key, body, [NoMetadata EXCEPT !["sha256"] = checksum], limit)

Init ==
    /\ versioning \in BOOLEAN
    /\ s3 = [k \in Keys |-> << >>]
    /\ layers = [n \in Names |-> {}]
    /\ next_version = [n \in Names |-> 1]
    /\ hist = << >>
    /\ frames = << >>

Next ==
    \/ \E a \in PresentArgs, file \in Bundles : ManagePresent(a, file, MaxCalls)
    \/ \E a \in AbsentArgs : ManageAbsent(a, MaxCalls)
    \/ \E a \in UnreadableArgs : ManageUnreadable(a, MaxCalls)
    \/ \E name \in Names : Destroy(name, MaxCalls)
    \/ \E k \in Keys, body \in Bundles : upload_sample_bundle(k, body, MaxForeignPuts)
    \/ \E k \in Keys, body \in Bundles, c \in Checksums :
         ForeignPutWithChecksum(k, body, c, MaxForeignPuts)

Spec == Init /\ [][Next]_vars

(* The scenario of the tests: calls with the default arguments only, no     *)
(* other actor, and a longer run.                                           *)
NextScenario ==
    \/ \E a \in DefaultPresentArgs, file \in Bundles :
         ManagePresent(a, file, MaxScenarioCalls)
    \/ \E a \in AbsentArgs : ManageAbsent(a, MaxScenarioCalls)
    \/ \E name \in Names : Destroy(name, MaxScenarioCalls)

SpecScenario == Init /\ [][NextScenario]_vars

-----------------------------------------------------------------------------
(* The modules as Ansible runs them, remote calls that fail, and lookups *)

\* the remote call that raises during a run, if any: the first of its kind
Faults == {None, "list_layer_versions", "get_object", "put_object",
           "publish_layer_version", "delete_layer_version"}

\* the position of the first call of a kind among the calls, 0 without one
FirstCall(calls, op) ==
    IF \E j \in 1..Len(calls) : calls[j].op = op
    THEN CHOOSE j \in 1..Len(calls) :
            /\ calls[j].op = op
            /\ \A h \in 1..(j - 1) : calls[h].op # op
    ELSE 0

\* interrupted, with the put of the calls made before the raise taken back
interrupted_rolled_back(a, out, fault) ==
    LET k == FirstCall(out.calls, fault)
        made == SubSeq(out.calls, 1, k - 1)
        put == \E j \in 1..Len(made) : made[j].op = "put_object"
    IN  IF fault = None \/ k = 0 THEN out
        ELSE Outcome(TRUE, [changed |-> put], SubSeq(out.calls, 1, k),
                     s3, layers, next_version)

(* manage_lambda_layer has no try/except: when a remote call raises, the    *)
(* calls made before it have taken effect, the raising call and those after *)
(* it have not, and the exception leaves the function.  `out` is the call   *)
(* as it goes without a failure; result keeps the local result['changed']   *)
(* at the raise (True from line 308 on).                                    *)
interrupted(a, out, fault) ==
    LET k == FirstCall(out.calls, fault)
        made == SubSeq(out.calls, 1, k - 1)
        put == \E j \in 1..Len(made) : made[j].op = "put_object"
        deleted == {made[j].VersionNumber :
                      j \in {h \in 1..Len(made) : made[h].op = "delete_layer_version"}}
    IN  IF fault = None \/ k = 0 THEN out
        ELSE Outcome(TRUE, [changed |-> put], SubSeq(out.calls, 1, k),
                     IF put THEN out.s3 ELSE s3,
                     [layers EXCEPT ![a.name] = {v \in @ : v.Version \notin deleted}],
                     next_version)

(* aws_lambda_layer.run_module (lines 360-391): what the module hands to    *)
(* exit_json or fail_json.  result.update(...) is not reached when          *)
(* manage_lambda_layer raises; msg is str(e), here the name of what raised. *)
run_module(params, out) ==
    LET result == [changed |-> FALSE, failed |-> FALSE, name |-> params.name]
    IN  IF out.raised
        THEN [exit |-> "fail_json", failed |-> TRUE,
              msg |-> IF out.calls = << >> THEN "open"
                      ELSE out.calls[Len(out.calls)].op]
             @@ result
        ELSE [exit |-> "exit_json"] @@ out.result @@ result

(* aws_layer_search.run_module (lines 83-116): one list_layer_versions      *)
(* request; versions[0] of the response sorted by Version, descending.      *)
layer_search(published, name, pages, fault) ==
    LET versions == list_layer_versions(pages, 1).LayerVersions
        result == [changed |-> FALSE, failed |-> FALSE]
    IN  IF fault
        THEN [exit |-> "fail_json", failed |-> TRUE, msg |-> "list_layer_versions"]
             @@ result
        ELSE IF versions # {}
        THEN [exit |-> "exit_json", name |-> name, found |-> TRUE,
              version |-> Max(versions),
              arn |-> get_layer_version(published, Max(versions)).LayerVersionArn]
             @@ result
        ELSE [exit |-> "exit_json", name |-> name, found |-> FALSE] @@ result

\* the parameters run_module passes on (lines 375-383): no metadata key; here
\* name, bucket, object_key and path, or name and state=absent, or no path
ModuleParams ==
    DefaultPresentArgs \cup {a \in AbsentArgs : a.path = None} \cup UnreadableArgs

\* one run of the aws_lambda_layer module
RunModule(a, file, fault, limit) ==
    /\ ModuleCalls < limit
    /\ \E pages \in Paginations(VersionNumbers(layers[a.name])) :
         LET bundle == IF a.state = "present" /\ a.path # None THEN file ELSE None
             out == interrupted(a, manage_lambda_layer(a, bundle, pages, pages), fault)
         IN  Apply([report |-> run_module(a, out), fault |-> fault]
                   @@ Entry("run_module", a, bundle, out), out)

\* one run of the layer_search module
LayerSearch(name, fault, limit) ==
    /\ ModuleCalls < limit
    /\ \E pages \in Paginations(VersionNumbers(layers[name])) :
         LET report == layer_search(layers[name], name, pages, fault)
             out == Outcome(fault, report, <<list_call(name)>>, s3, layers, next_version)
         IN  Apply([report |-> report, fault |-> fault]
                   @@ Entry("layer_search", [name |-> name], None, out), out)

\* get_layer_version_info(name[, local_checksum]), called directly
GetLayerVersionInfo(name, local_checksum, limit) ==
    /\ ModuleCalls < limit
    /\ \E pages \in Paginations(VersionNumbers(layers[name])) :
         LET layer == get_layer_version_info(layers[name], local_checksum, pages)
             out == Outcome(FALSE, [layer |-> layer], <<list_call(name)>>,
                            s3, layers, next_version)
         IN  Apply(Entry("get_layer_version_info",
                         [name |-> name, local_checksum |-> local_checksum,
                          pages |-> pages],
                         None, out), out)

NextModule ==
    \/ \E a \in ModuleParams, file \in Bundles, fault \in Faults :
         RunModule(a, file, fault, MaxModuleRuns)
    \/ \E name \in Names, fault \in BOOLEAN : LayerSearch(name, fault, MaxModuleRuns)
    \/ \E name \in Names, c \in {None} \cup Checksums :
         GetLayerVersionInfo(name, c, MaxModuleRuns)

SpecModule == Init /\ [][NextModule]_vars

-----------------------------------------------------------------------------
(* destroy_layer with a delete that fails *)

\* the orders in which `for version in versions` (line 256) may visit the set
RECURSIVE Orders(_)
Orders(S) ==
    IF S = {} THEN {<< >>}
    ELSE UNION {{<<x>> \o o : o \in Orders(S \ {x})} : x \in S}

\* destroy_layer catching the error of a delete and going on with the rest
destroy_layer_failing_skipping(published, name, order, k) ==
    LET deleted == {order[j] : j \in 1..Len(order)} \ {order[k]}
    IN  [published |-> {v \in published : v.Version \notin deleted},
         calls |-> <<list_call(name)>> \o
                  [j \in 1..Len(order) |->
                      [op |-> "delete_layer_version", LayerName |-> name,
                       VersionNumber |-> order[j]]],
         raised |-> TRUE]

(* destroy_layer (lines 255-260) when its k-th delete_layer_version raises: *)
(* the loop has no try/except, the deletes before it are done, the raising  *)
(* one is the last call, line 262 is not reached.                           *)
destroy_layer_failing(published, name, order, k) ==
    LET deleted == {order[j] : j \in 1..(k - 1)}
    IN  [published |-> {v \in published : v.Version \notin deleted},
         calls |-> <<list_call(name)>> \o
                  [j \in 1..k |->
                      [op |-> "delete_layer_version", LayerName |-> name,
                       VersionNumber |-> order[j]]],
         raised |-> TRUE]

\* destroy_layer(name), called directly, with a delete that raises
DestroyInterrupted(name, limit) ==
    /\ ModuleCalls < limit
    /\ \E pages \in Paginations(VersionNumbers(layers[name])) :
       \E order \in Orders(destroy_versions(pages)) :
       \E k \in 1..Len(order) :
         LET destroyed == destroy_layer_failing(layers[name], name, order, k)
             out == Outcome(TRUE, << >>, destroyed.calls,
                            s3, [layers EXCEPT ![name] = destroyed.published],
                            next_version)
         IN  Apply(Entry("destroy_layer", [name |-> name], None, out), out)

NextDestroy ==
    \/ \E a \in DefaultPresentArgs, file \in Bundles :
         ManagePresent(a, file, MaxDestroyCalls)
    \/ \E name \in Names : Destroy(name, MaxDestroyCalls)
    \/ \E name \in Names : DestroyInterrupted(name, MaxDestroyCalls)

SpecDestroy == Init /\ [][NextDestroy]_vars

-----------------------------------------------------------------------------
(* The retry loop around create_function (molecule test, lines 92-121) *)

MaxAttempts == 6        \* for i in range(6)
SleepSeconds == 3       \* time.sleep(3)

\* what one create_function call can end in: the function is created, the
\* management plane answers with a client error, or the call raises otherwise
ClientErrors == {"InvalidParameterValueException", "ResourceConflictException"}
OtherErrors == {"EndpointConnectionError"}
CreateOutcomes == {"created"} \cup ClientErrors \cup OtherErrors

\* line 114 catching every exception
is_client_error_any(outcome) ==
    outcome # "created"

\* line 114: except lambda_client.exceptions.ClientError
is_client_error(outcome) ==
    outcome \in ClientErrors

\* the loop is entered: i = 0, nothing attempted yet
RetryStart ==
    /\ frames = << >>
    /\ frames' = <<[pc |-> "create_function", i |-> 0, attempts |-> 0,
                    log |-> << >>, slept |-> 0, error |-> None]>>
    /\ UNCHANGED <<versioning, s3, layers, next_version, hist>>

\* lines 93-119: one create_function call and what the try statement does with it
CreateFunction(outcome) ==
    /\ frames # << >>
    /\ frames[1].pc = "create_function"
    /\ LET f == [frames[1] EXCEPT !.attempts = @ + 1]
       IN  frames' =
             <<IF outcome = "created" THEN [f EXCEPT !.pc = "done"]
               ELSE IF is_client_error(outcome)
                    THEN [f EXCEPT !.pc = "sleep", !.log = Append(@, outcome)]
                    ELSE [f EXCEPT !.pc = "raised", !.error = outcome]>>
    /\ UNCHANGED <<versioning, s3, layers, next_version, hist>>

\* lines 116, 92 and 120-121: the sleep, then the next i or the else clause
Sleep ==
    /\ frames # << >>
    /\ frames[1].pc = "sleep"
    /\ LET f == [frames[1] EXCEPT !.slept = @ + SleepSeconds]
       IN  frames' =
             <<IF f.i + 1 < MaxAttempts
               THEN [f EXCEPT !.pc = "create_function", !.i = @ + 1]
               ELSE [f EXCEPT !.pc = "raised", !.error = "Too many attempts"]>>
    /\ UNCHANGED <<versioning, s3, layers, next_version, hist>>

NextRetry ==
    \/ RetryStart
    \/ \E outcome \in CreateOutcomes : CreateFunction(outcome)
    \/ Sleep

SpecRetry == Init /\ [][NextRetry]_vars

-----------------------------------------------------------------------------
(* The marker walk, request by request (lines 202-212 and 242-253) *)

\* the chains of up to MaxPages pages that together hold the versions
PageChains(numbers) ==
    UNION {{c \in [1..n -> SUBSET numbers] :
               UNION {c[j] : j \in 1..n} = numbers} : n \in 1..MaxPages}

WalkingFunctions == {"get_layer_version_info", "destroy_layer"}

\* lines 204-206 / 244-247: the first request and what is kept of its response
WalkStart(fn, name, limit) ==
    /\ ModuleCalls < limit
    /\ frames = << >>
    /\ \E pages \in PageChains(VersionNumbers(layers[name])) :
         LET response == list_layer_versions(pages, 1)
         IN  frames' = <<[pc |-> "walk", fn |-> fn, name |-> name, pages |-> pages,
                          response |-> response,
                          versions |-> {} \cup response.LayerVersions,
                          requests |-> <<1>>]>>
    /\ UNCHANGED <<versioning, s3, layers, next_version, hist>>

\* lines 208-212 / 249-253: one turn of `while marker`
WalkNext ==
    /\ frames # << >>
    /\ frames[1].pc = "walk"
    /\ HasMarker(frames[1].response)
    /\ LET f == frames[1]
           response == list_layer_versions(f.pages, f.response.NextMarker)
       IN  frames' = <<[f EXCEPT !.response = response,
                                 !.versions = @ \cup response.LayerVersions,
                                 !.requests = Append(@, f.response.NextMarker)]>>
    /\ UNCHANGED <<versioning, s3, layers, next_version, hist>>

\* lines 214-231 / 255-262: the loop is left and the function does the rest
WalkFinish ==
    /\ frames # << >>
    /\ frames[1].pc = "walk"
    /\ ~HasMarker(frames[1].response)
    /\ LET f == frames[1]
           a == [name |-> f.name, local_checksum |-> None,
                 pages |-> f.pages, requests |-> f.requests, versions |-> f.versions]
           found == matching_versions(layers[f.name], None, f.versions)
           order == Ascending(f.versions)
           out == IF f.fn = "get_layer_version_info"
                  THEN Outcome(FALSE,
                               [layer |-> IF found = {} THEN NoLayer
                                          ELSE get_layer_version(layers[f.name], Max(found))],
                               [j \in 1..Len(f.requests) |-> list_call(f.name)],
                               s3, layers, next_version)
                  ELSE Outcome(FALSE, [returned |-> f.versions # {}],
                               [j \in 1..Len(f.requests) |-> list_call(f.name)] \o
                               [j \in 1..Len(order) |->
                                   [op |-> "delete_layer_version", LayerName |-> f.name,
                                    VersionNumber |-> order[j]]],
                               s3,
                               [layers EXCEPT ![f.name] =
                                   {v \in @ : v.Version \notin f.versions}],
                               next_version)
       IN  /\ s3' = out.s3
           /\ layers' = out.layers
           /\ next_version' = out.next_version
           /\ hist' = Append(hist, Entry(f.fn, a, None, out))
    /\ frames' = << >>
    /\ UNCHANGED versioning

NextWalk ==
    \/ \E a \in DefaultPresentArgs, file \in Bundles :
         frames = << >> /\ ManagePresent(a, file, MaxWalkCalls)
    \/ \E fn \in WalkingFunctions, name \in Names : WalkStart(fn, name, MaxWalkCalls)
    \/ WalkNext
    \/ WalkFinish

\* every request is blocking and answered: the loop, once entered, goes on
SpecWalk ==
    Init /\ [][NextWalk]_vars /\ WF_vars(WalkNext) /\ WF_vars(WalkFinish)

-----------------------------------------------------------------------------
(* Two present reconciles of manage_lambda_layer, remote call by remote call *)

\* the two reconciles: the first and the second to start
Reconcilers == {1, 2}

\* the reconciles that have returned
Returned == {q \in 1..Len(frames) : frames[q].pc = "done"}

\* lines 266-278: the call is entered and the local bundle is read
RaceStart(a, file) ==
    /\ Len(frames) < Cardinality(Reconcilers)
    /\ \A q \in 1..Len(frames) : "after" \in DOMAIN frames[q]
    /\ frames' = Append(frames,
                        [pc |-> "list", args |-> a, file |-> file,
                         local_checksum |-> get_file_checksum(file),
                         layer |-> NoLayer, result |-> [changed |-> FALSE],
                         object_version |-> a.object_version, calls |-> << >>,
                         after |-> Returned,
                         before |-> [s3 |-> s3, layers |-> layers]])
    /\ UNCHANGED <<versioning, s3, layers, next_version, hist>>

\* where the call goes after line 303 or line 308: to the publish or to the end
after_upload(f, result) ==
    IF needs_publish(f.layer, result, f.local_checksum, f.args.runtimes)
    THEN "publish" ELSE "done"

\* lines 279-287: get_layer_version_info and the result fields of the layer
RaceList(p) ==
    /\ frames[p].pc = "list"
    /\ \E pages \in Paginations(VersionNumbers(layers[frames[p].args.name])) :
         LET f == frames[p]
             layer == get_layer_version_info(layers[f.args.name], f.local_checksum, pages)
         IN  frames' = [frames EXCEPT ![p] =
                 [f EXCEPT !.pc = "get", !.layer = layer,
                           !.result = (IF layer # NoLayer THEN layer_result(layer)
                                       ELSE << >>) @@ @,
                           !.calls = Append(@, list_call(f.args.name))]]
    /\ UNCHANGED <<versioning, s3, layers, next_version, hist>>

\* lines 296-305: fetch_s3_checksum, the result fields, the upload decision
RaceGet(p) ==
    /\ frames[p].pc = "get"
    /\ LET f == frames[p]
           fetched == fetch_s3_checksum(s3, f.args.object_key, f.args.object_version,
                                        f.args.metadata)
           result == [bucket |-> f.args.bucket,
                      object_version |-> f.args.object_version,
                      downloaded |-> fetched.downloaded] @@ f.result
       IN  frames' = [frames EXCEPT ![p] =
               [f EXCEPT !.pc = IF needs_upload(fetched.checksum, f.local_checksum)
                                THEN "put" ELSE after_upload(f, result),
                         !.result = result,
                         !.calls = Append(@, [op |-> "get_object"])]]
    /\ UNCHANGED <<versioning, s3, layers, next_version, hist>>

\* lines 306-308: upload_file
RacePut(p) ==
    /\ frames[p].pc = "put"
    /\ LET f == frames[p]
           result == [changed |-> TRUE] @@ f.result
       IN  /\ s3' = put_object(s3, versioning, f.args.object_key, f.file,
                               upload_metadata(f.local_checksum, f.args.metadata))
           /\ frames' = [frames EXCEPT ![p] =
                 [f EXCEPT !.pc = after_upload(f, result),
                           !.object_version = upload_file(s3, versioning, f.args.object_key),
                           !.result = result,
                           !.calls = Append(@, [op |-> "put_object"])]]
    /\ UNCHANGED <<versioning, layers, next_version, hist>>

\* lines 311-328: publish_layer_version and the result fields of its response
RacePublish(p) ==
    /\ frames[p].pc = "publish"
    /\ LET f == frames[p]
           content == publish_content(f.args.bucket, f.args.object_key, f.object_version)
           published == publish_layer_version(s3, f.args.name, next_version[f.args.name],
                                              content, publish_kwargs(f.args.runtimes))
       IN  /\ layers' = [layers EXCEPT ![f.args.name] = @ \cup {published}]
           /\ next_version' = [next_version EXCEPT ![f.args.name] = @ + 1]
           /\ frames' = [frames EXCEPT ![p] =
                 [f EXCEPT !.pc = "done",
                           !.result = publish_result(published) @@ @,
                           !.calls = Append(@, [op |-> "publish_layer_version"])]]
    /\ UNCHANGED <<versioning, s3, hist>>

NextRace ==
    \/ \E k \in Keys, body \in Bundles :
         frames = << >> /\ upload_sample_bundle(k, body, MaxForeignPuts)
    \/ \E k \in Keys, body \in Bundles, c \in Checksums :
         frames = << >> /\ ForeignPutWithChecksum(k, body, c, MaxForeignPuts)
    \/ \E a \in DefaultPresentArgs, file \in Bundles : RaceStart(a, file)
    \/ \E p \in 1..Len(frames) : RaceList(p)
    \/ \E p \in 1..Len(frames) : RaceGet(p)
    \/ \E p \in 1..Len(frames) : RacePut(p)
    \/ \E p \in 1..Len(frames) : RacePublish(p)

SpecRace == Init /\ [][NextRace]_vars

-----------------------------------------------------------------------------
(* Reading the history *)

Calls == 1..Len(hist)

\* a manage_lambda_layer(state='present') call that returned
Reconciled(i) ==
    /\ hist[i].call = "manage_lambda_layer"
    /\ hist[i].args.state = "present"
    /\ ~hist[i].raised

\* a manage_lambda_layer(state='absent') call
Absented(i) ==
    /\ hist[i].call = "manage_lambda_layer"
    /\ hist[i].args.state = "absent"

Destroyed(i) == hist[i].call = "destroy_layer"

CountOf(i, op) ==
    Cardinality({j \in 1..Len(hist[i].calls) : hist[i].calls[j].op = op})

Puts(i) == CountOf(i, "put_object")
Publishes(i) == CountOf(i, "publish_layer_version")
Deletes(i) == CountOf(i, "delete_layer_version")

LocalChecksum(i) == sha256_b64(hist[i].file)

\* the published versions of the call's layer name when the call started
PublishedBefore(i) == hist[i].before.layers[hist[i].args.name]

\* ... and when it returned
PublishedAfter(i) ==
    IF i < Len(hist) THEN hist[i + 1].before.layers[hist[i].args.name]
    ELSE layers[hist[i].args.name]

RuntimesOf(v) ==
    IF "CompatibleRuntimes" \in DOMAIN v THEN v.CompatibleRuntimes ELSE << >>

\* the published versions whose content checksum is the local bundle's
MatchingBefore(i) ==
    {v \in PublishedBefore(i) : v.Content.CodeSha256 = LocalChecksum(i)}

LatestMatchingBefore(i) ==
    CHOOSE v \in MatchingBefore(i) : \A w \in MatchingBefore(i) : w.Version <= v.Version

\* the object the call's bucket/key/version arguments name, when the call started
TargetBefore(i) ==
    get_object(hist[i].before.s3, hist[i].args.object_key, hist[i].args.object_version)

\* the checksum the call resolves for that object: its metadata entry under the
\* call's metadata key, else the digest of its bytes; None without an object
ResolvedBefore(i) ==
    LET obj == TargetBefore(i)
    IN  IF obj = NoSuchKey THEN None
        ELSE IF obj.Metadata[hist[i].args.metadata] # None
             THEN obj.Metadata[hist[i].args.metadata]
             ELSE sha256_b64(obj.Body)

\* every checksum an object carries in its metadata is the digest of its bytes
HonestObject(obj) ==
    \A k \in MetadataKeys : obj.Metadata[k] \in {None, sha256_b64(obj.Body)}

\* no object written up to (not including) call i carried a wrong checksum
HonestBefore(i) ==
    \A k \in Keys : \A j \in 1..Len(hist[i].before.s3[k]) :
        HonestObject(hist[i].before.s3[k][j])

\* ... and no other actor has written one at any time before call i
HonestUpTo(i) ==
    \A j \in 1..i : HonestBefore(j)

SameRequest(i, j) ==
    /\ hist[i].args = hist[j].args
    /\ hist[i].file = hist[j].file

-----------------------------------------------------------------------------
(* C1: two consecutive successful present calls with identical arguments and *)
(* the same bundle: the second reports changed = false, and both report the  *)
(* same version number and the same version ARN.                             *)
C1_Idempotence ==
    \A i \in Calls :
        (i > 1 /\ Reconciled(i - 1) /\ Reconciled(i) /\ SameRequest(i - 1, i))
        => /\ ~hist[i].result.changed
           /\ hist[i].result.version = hist[i - 1].result.version
           /\ hist[i].result.version_arn = hist[i - 1].result.version_arn

\* calls i and j are present reconciles of the same name, bucket, key and runtimes
SameTarget(i, j) ==
    /\ Reconciled(i) /\ Reconciled(j)
    /\ hist[i].args.name = hist[j].args.name
    /\ hist[i].args.bucket = hist[j].args.bucket
    /\ hist[i].args.object_key = hist[j].args.object_key
    /\ hist[i].args.runtimes = hist[j].args.runtimes

\* call i reconciles a bundle that differs from the one of the call before it
\* and from the content of every version published so far
FreshBundleAfter(i) ==
    /\ i > 1
    /\ SameTarget(i - 1, i)
    /\ LocalChecksum(i) # LocalChecksum(i - 1)
    /\ MatchingBefore(i) = {}

ChangeDetected(i) ==
    /\ hist[i].result.changed
    /\ hist[i].result.version_arn # hist[i - 1].result.version_arn
    /\ hist[i].result.version_checksum # hist[i - 1].result.version_checksum

(* C2, as stated: a present reconcile of a bundle B right after one of a     *)
(* bundle A (same name, bucket, key, runtimes), B's checksum differing from  *)
(* A's and from every published version's, reports changed = true, another  *)
(* version ARN and another version_checksum than the first call.             *)
C2_ChangeDetection ==
    \A i \in Calls : FreshBundleAfter(i) => ChangeDetected(i)

(* C2, amended: the same, provided every checksum that an object stored      *)
(* before the second call carried in its metadata was the checksum of that   *)
(* object's bytes.                                                           *)
C2_ChangeDetectionHonest ==
    \A i \in Calls : (FreshBundleAfter(i) /\ HonestUpTo(i)) => ChangeDetected(i)

\* C2's case: a changed bundle was reconciled over honest objects, one of them
\* written by another actor, and a new version came out of it
C2_Witness ==
    \E i \in Calls :
        /\ FreshBundleAfter(i) /\ HonestUpTo(i) /\ ChangeDetected(i)
        /\ Publishes(i) = 1
        /\ \E j \in 1..(i - 1) : hist[j].call = "put_object"

\* calls i-2, i-1, i are present(A), present(B), present(A) on the same name,
\* bucket, key and runtimes, and the first of them published a version
Redeployed(i) ==
    /\ i > 2
    /\ SameTarget(i - 2, i - 1) /\ SameTarget(i - 1, i)
    /\ hist[i].file = hist[i - 2].file
    /\ LocalChecksum(i - 1) # LocalChecksum(i)
    /\ Publishes(i - 2) = 1

EarlierVersionReturned(i) ==
    /\ hist[i].result.version_arn = hist[i - 2].result.version_arn
    /\ hist[i].result.version_checksum = hist[i - 2].result.version_checksum
    /\ Publishes(i) = 0

(* C3, as stated: in present(A), present(B), present(A) on the same name and *)
(* key, the third call returns the version ARN and checksum of the version   *)
(* the first call published, publishes nothing, and reports changed = true.  *)
C3_Redeploy ==
    \A i \in Calls :
        Redeployed(i) => (EarlierVersionReturned(i) /\ hist[i].result.changed)

(* C3, amended: provided every checksum that an object stored before the     *)
(* third call carried in its metadata was the checksum of that object's      *)
(* bytes, the third call returns the version ARN and checksum of the version *)
(* the first call published and publishes nothing; it reports changed = true *)
(* exactly when the checksum resolved for the object it names differs from   *)
(* A's (it then uploads), which is the case whenever neither the second nor  *)
(* the third call names an object version.                                   *)
C3_RedeployHonest ==
    \A i \in Calls :
        (Redeployed(i) /\ HonestUpTo(i))
        => /\ EarlierVersionReturned(i)
           /\ hist[i].result.changed = (ResolvedBefore(i) # LocalChecksum(i))
           /\ hist[i].result.changed = (Puts(i) = 1)
           /\ (hist[i - 1].args.object_version = None /\ hist[i].args.object_version = None)
              => hist[i].result.changed

\* C3's case, both ways: the third call re-uploaded A over B and returned the
\* first version ...
C3_Witness ==
    \E i \in Calls :
        /\ Redeployed(i) /\ HonestUpTo(i) /\ EarlierVersionReturned(i)
        /\ hist[i].args.object_version = None
        /\ Puts(i) = 1 /\ hist[i].result.changed

\* ... or named the stored version that still holds A and changed nothing
C3_WitnessPinned ==
    \E i \in Calls :
        /\ Redeployed(i) /\ HonestUpTo(i) /\ EarlierVersionReturned(i)
        /\ hist[i].args.object_version # None
        /\ Puts(i) = 0 /\ ~hist[i].result.changed

-----------------------------------------------------------------------------
\* the four calls so far are present(A), present(A), present(B), present(A) with
\* the default arguments, on a name and key nothing was published or stored for
ScenarioRun ==
    /\ Len(hist) = 4
    /\ \A i \in 1..4 : Reconciled(i) /\ hist[i].args \in DefaultPresentArgs
    /\ \A i \in 2..4 : hist[i].args = hist[1].args
    /\ hist[2].file = hist[1].file
    /\ hist[3].file # hist[1].file
    /\ hist[4].file = hist[1].file

ScenarioVersions == [i \in 1..4 |-> hist[i].result.version]
ScenarioChanged == [i \in 1..4 |-> hist[i].result.changed]

(* C4, as stated: the scenario reports the version numbers 1, 1, 2, 3 and    *)
(* changed = true, false, true, true; the fourth call publishes a version 3  *)
(* with A's checksum.                                                        *)
C4_Scenario ==
    ScenarioRun
    => /\ ScenarioVersions = <<1, 1, 2, 3>>
       /\ ScenarioChanged = <<TRUE, FALSE, TRUE, TRUE>>
       /\ Publishes(4) = 1
       /\ hist[4].result.version_checksum = LocalChecksum(1)

(* C4, amended: the scenario reports the version numbers 1, 1, 2, 1 and      *)
(* changed = true, false, true, true; the fourth call uploads A over B and   *)
(* publishes nothing: it returns version 1, which has A's checksum, and the  *)
(* layer keeps exactly the versions 1 and 2.                                 *)
C4_ScenarioAsCoded ==
    ScenarioRun
    => /\ ScenarioVersions = <<1, 1, 2, 1>>
       /\ ScenarioChanged = <<TRUE, FALSE, TRUE, TRUE>>
       /\ Puts(4) = 1 /\ Publishes(4) = 0
       /\ hist[4].result.version_arn = hist[1].result.version_arn
       /\ hist[4].result.version_checksum = LocalChecksum(1)
       /\ VersionNumbers(layers[hist[1].args.name]) = {1, 2}

\* C4's case: the scenario was run to its fourth call
C4_Witness ==
    /\ ScenarioRun
    /\ hist[4].result.changed
    /\ get_object(s3, hist[4].args.object_key, None).Body = hist[1].file

-----------------------------------------------------------------------------
\* at the start of call i a published version has the local bundle's checksum
\* and the requested runtime list
SomeMatchBefore(i) ==
    \E v \in MatchingBefore(i) : RuntimesOf(v) = hist[i].args.runtimes

\* ... and the highest-numbered version with the local checksum is such a one
LatestMatchBefore(i) ==
    /\ MatchingBefore(i) # {}
    /\ RuntimesOf(LatestMatchingBefore(i)) = hist[i].args.runtimes

(* C5, as stated: a present reconcile that finds a published version with    *)
(* the local checksum and the requested runtimes uploads nothing, publishes  *)
(* nothing and reports changed = false, whatever the object at the key is;   *)
(* and changed is true only if the call published.                           *)
C5_NoOpRow ==
    \A i \in Calls :
        Reconciled(i)
        => /\ SomeMatchBefore(i)
              => (Puts(i) = 0 /\ Publishes(i) = 0 /\ ~hist[i].result.changed)
           /\ hist[i].result.changed => Publishes(i) = 1

(* C5, amended: a present reconcile whose highest-numbered published version *)
(* with the local checksum has the requested runtimes publishes nothing and  *)
(* returns that version; it uploads (one put) and reports changed = true     *)
(* exactly when the checksum resolved for the object at the key is absent or *)
(* differs from the local one, and otherwise reports changed = false.  In    *)
(* every present reconcile changed is true exactly if it uploaded or         *)
(* published.                                                                *)
C5_NoOpRowAsCoded ==
    \A i \in Calls :
        Reconciled(i)
        => /\ LatestMatchBefore(i)
              => /\ Publishes(i) = 0
                 /\ hist[i].result.version = LatestMatchingBefore(i).Version
                 /\ Puts(i) = (IF ResolvedBefore(i) = LocalChecksum(i) THEN 0 ELSE 1)
                 /\ hist[i].result.changed = (ResolvedBefore(i) # LocalChecksum(i))
           /\ hist[i].result.changed = (Puts(i) + Publishes(i) > 0)

\* C5's case, both ways: the matching version was found and the object at the
\* key already had the bundle's checksum (nothing done) ...
C5_Witness ==
    \E i \in Calls :
        /\ Reconciled(i) /\ LatestMatchBefore(i)
        /\ ResolvedBefore(i) = LocalChecksum(i)
        /\ Puts(i) = 0 /\ Publishes(i) = 0 /\ ~hist[i].result.changed

\* ... or held other content (uploaded, changed, nothing published)
C5_WitnessUpload ==
    \E i \in Calls :
        /\ Reconciled(i) /\ LatestMatchBefore(i)
        /\ ResolvedBefore(i) \notin {None, LocalChecksum(i)}
        /\ Puts(i) = 1 /\ Publishes(i) = 0 /\ hist[i].result.changed

-----------------------------------------------------------------------------
\* the publish call of call i, if it made one
PublishOf(i) ==
    hist[i].calls[CHOOSE j \in 1..Len(hist[i].calls) :
                    hist[i].calls[j].op = "publish_layer_version"]

\* the runtimes-differ row: the highest-numbered version with the local checksum
\* has another runtime list than requested, and the checksum resolved for the
\* object at the key is the local one
RuntimesDiffer(i) ==
    /\ Reconciled(i)
    /\ MatchingBefore(i) # {}
    /\ RuntimesOf(LatestMatchingBefore(i)) # hist[i].args.runtimes
    /\ ResolvedBefore(i) = LocalChecksum(i)

(* C6: in the runtimes-differ row the reconcile uploads nothing, publishes   *)
(* exactly one new version, from the bucket and key of the request (and the  *)
(* object version of the request, if any), and reports changed = true with   *)
(* the new version's number and ARN.                                         *)
C6_RuntimesDifferRow ==
    \A i \in Calls :
        RuntimesDiffer(i)
        => /\ Puts(i) = 0
           /\ Publishes(i) = 1
           /\ PublishOf(i).Content =
                publish_content(hist[i].args.bucket, hist[i].args.object_key,
                                hist[i].args.object_version)
           /\ hist[i].result.changed
           /\ hist[i].result.version = hist[i].before.next_version[hist[i].args.name]
           /\ hist[i].result.version \notin VersionNumbers(PublishedBefore(i))
           /\ hist[i].result.version_arn =
                LayerVersionArn(hist[i].args.name, hist[i].result.version)
           /\ PublishedAfter(i) \ PublishedBefore(i) =
                {v \in PublishedAfter(i) : v.Version = hist[i].result.version}
           /\ \A v \in PublishedAfter(i) \ PublishedBefore(i) :
                RuntimesOf(v) = hist[i].args.runtimes

\* C6's case: the same two runtimes in another order made the call re-publish
C6_Witness ==
    \E i \in Calls :
        /\ RuntimesDiffer(i)
        /\ hist[i].args.runtimes # << >>
        /\ RuntimesOf(LatestMatchingBefore(i)) # << >>
        /\ Publishes(i) = 1 /\ Puts(i) = 0
        /\ hist[i].result.version = LatestMatchingBefore(i).Version + 1

-----------------------------------------------------------------------------
\* the positions of the calls of one kind among the remote calls of call i
PositionsOf(i, op) == {j \in 1..Len(hist[i].calls) : hist[i].calls[j].op = op}

(* C7: a present reconcile uploads the bundle, with exactly one put, if and  *)
(* only if the checksum resolved for the target object is absent or differs  *)
(* from the local checksum; and when no published version has the local      *)
(* checksum, exactly one publish follows (after the put, if any) and         *)
(* changed = true is reported.                                               *)
C7_UploadDecision ==
    \A i \in Calls :
        Reconciled(i)
        => /\ Puts(i) = (IF ResolvedBefore(i) = None
                            \/ ResolvedBefore(i) # LocalChecksum(i) THEN 1 ELSE 0)
           /\ \A j \in PositionsOf(i, "put_object") :
                /\ hist[i].calls[j].Body = hist[i].file
                /\ hist[i].calls[j].Key = hist[i].args.object_key
           /\ MatchingBefore(i) = {}
              => /\ Publishes(i) = 1
                 /\ hist[i].result.changed
                 /\ \A j \in PositionsOf(i, "put_object") :
                    \A k \in PositionsOf(i, "publish_layer_version") : j < k

\* C7's case, three ways: an upload then a publish for a missing object ...
C7_Witness ==
    \E i \in Calls :
        /\ Reconciled(i) /\ MatchingBefore(i) = {}
        /\ ResolvedBefore(i) = None
        /\ Puts(i) = 1 /\ Publishes(i) = 1

\* ... an upload over an object with another checksum, without a publish ...
C7_WitnessUploadOnly ==
    \E i \in Calls :
        /\ Reconciled(i) /\ MatchingBefore(i) # {}
        /\ ResolvedBefore(i) \notin {None, LocalChecksum(i)}
        /\ Puts(i) = 1 /\ Publishes(i) = 0

\* ... and a publish without an upload, the object having the local checksum
C7_WitnessPublishOnly ==
    \E i \in Calls :
        /\ Reconciled(i) /\ MatchingBefore(i) = {}
        /\ ResolvedBefore(i) = LocalChecksum(i)
        /\ Puts(i) = 0 /\ Publishes(i) = 1 /\ hist[i].result.changed

-----------------------------------------------------------------------------
\* call i repeats the present reconcile before it with another metadata key,
\* one the stored object has no entry for, and the object's bytes are the bundle
OtherMetadataKey(i) ==
    /\ i > 1
    /\ SameTarget(i - 1, i)
    /\ hist[i].file = hist[i - 1].file
    /\ hist[i].args.object_version = hist[i - 1].args.object_version
    /\ TargetBefore(i) # NoSuchKey
    /\ TargetBefore(i).Metadata[hist[i].args.metadata] = None
    /\ TargetBefore(i).Body = hist[i].file
    /\ LatestMatchBefore(i)

(* C8: a present reconcile with a metadata key the stored object has no      *)
(* entry for, the object's bytes being the local bundle and a matching       *)
(* version being published, reports downloaded = true and changed = false    *)
(* and the version ARN of the reconcile before it; it uploads nothing and    *)
(* publishes nothing.                                                        *)
C8_ChecksumKeyIndependence ==
    \A i \in Calls :
        OtherMetadataKey(i)
        => /\ hist[i].result.downloaded = "True"
           /\ ~hist[i].result.changed
           /\ hist[i].result.version_arn = hist[i - 1].result.version_arn
           /\ Puts(i) = 0 /\ Publishes(i) = 0

\* C8's case: the object was uploaded under 'sha256' and is reconciled under
\* 'unique'
C8_Witness ==
    \E i \in Calls :
        /\ OtherMetadataKey(i)
        /\ hist[i].args.metadata = "unique"
        /\ hist[i - 1].args.metadata = "sha256"
        /\ Puts(i - 1) = 1
        /\ TargetBefore(i).Metadata["sha256"] = LocalChecksum(i)
        /\ hist[i].result.downloaded = "True"

-----------------------------------------------------------------------------
(* C9: when destroy_layer(name) has returned, no version of name is left,    *)
(* however many there were and however the listing was paged; and a          *)
(* destroy_layer(name) right after it returns false and deletes nothing.     *)
C9_DestructionCompleteness ==
    \A i \in Calls :
        Destroyed(i)
        => /\ PublishedAfter(i) = {}
           /\ (i > 1 /\ Destroyed(i - 1) /\ hist[i - 1].args = hist[i].args)
              => (~hist[i].result.returned /\ Deletes(i) = 0)

\* C9's case: a destroy that deleted two versions, and a second one after it
C9_Witness ==
    \E i \in Calls :
        /\ i > 1 /\ Destroyed(i - 1) /\ Destroyed(i)
        /\ Deletes(i - 1) >= 1 /\ hist[i - 1].result.returned
        /\ ~hist[i].result.returned

C9_WitnessTwoVersions ==
    \E i \in Calls :
        /\ Destroyed(i) /\ Cardinality(PublishedBefore(i)) = 2
        /\ Deletes(i) = 2 /\ PublishedAfter(i) = {}

-----------------------------------------------------------------------------
(* C10: manage_lambda_layer(state='absent') on a name without a published    *)
(* version returns changed = false and does not raise, also with bucket,     *)
(* object key, object version and path all unset.                            *)
C10_AbsenceIdempotence ==
    \A i \in Calls :
        (Absented(i) /\ PublishedBefore(i) = {})
        => (~hist[i].raised /\ ~hist[i].result.changed)

\* C10's case: absent with everything unset, on a name never published to
C10_Witness ==
    \E i \in Calls :
        /\ Absented(i) /\ PublishedBefore(i) = {}
        /\ hist[i].before.next_version[hist[i].args.name] = 1
        /\ hist[i].args.bucket = None /\ hist[i].args.object_key = None
        /\ hist[i].args.object_version = None /\ hist[i].args.path = None
        /\ ~hist[i].raised /\ ~hist[i].result.changed


-----------------------------------------------------------------------------
\* the object store when call i returned
StoreAfter(i) ==
    IF i < Len(hist) THEN hist[i + 1].before.s3 ELSE s3

\* the version counters when call i returned
CountersAfter(i) ==
    IF i < Len(hist) THEN hist[i + 1].before.next_version ELSE next_version

\* the version numbers call i asked the management plane to delete
DeletedBy(i) ==
    {hist[i].calls[j].VersionNumber : j \in PositionsOf(i, "delete_layer_version")}

(* C11: manage_lambda_layer(state='absent') returns, leaves the name without *)
(* a published version, deletes each version it found exactly once, reports  *)
(* changed = (a version existed before the call), and issues no get, no put  *)
(* and no publish: the object store is as it was.                            *)
C11_AbsentReconcile ==
    \A i \in Calls :
        Absented(i)
        => /\ ~hist[i].raised
           /\ PublishedAfter(i) = {}
           /\ DeletedBy(i) = VersionNumbers(PublishedBefore(i))
           /\ Deletes(i) = Cardinality(PublishedBefore(i))
           /\ hist[i].result.changed = (PublishedBefore(i) # {})
           /\ \A j \in 1..Len(hist[i].calls) :
                hist[i].calls[j].op \in {"list_layer_versions", "delete_layer_version"}
           /\ StoreAfter(i) = hist[i].before.s3
           /\ CountersAfter(i) = hist[i].before.next_version

\* C11's case: an absent reconcile, given bucket and key, removed the two
\* versions of a layer whose bundle is in the bucket
C11_Witness ==
    \E i \in Calls :
        /\ Absented(i)
        /\ hist[i].args.object_key # None
        /\ Cardinality(PublishedBefore(i)) = 2
        /\ hist[i].before.s3[hist[i].args.object_key] # << >>
        /\ hist[i].result.changed
        /\ PublishedAfter(i) = {}

\* ... and one that found nothing to remove
C11_WitnessNothing ==
    \E i \in Calls :
        /\ Absented(i) /\ PublishedBefore(i) = {}
        /\ ~hist[i].result.changed
        /\ Deletes(i) = 0
        /\ i > 1 /\ hist[i - 1].call = "put_object"

-----------------------------------------------------------------------------
VersionFields == {"arn", "version", "version_arn", "version_checksum"}

\* the result of call i carries the four version fields, and they are those of v
Reports(i, v) ==
    /\ VersionFields \subseteq DOMAIN hist[i].result
    /\ hist[i].result.arn = v.LayerArn
    /\ hist[i].result.version = v.Version
    /\ hist[i].result.version_arn = v.LayerVersionArn
    /\ hist[i].result.version_checksum = v.Content.CodeSha256

\* the highest-numbered version of the call's layer when the call returned
LatestAfter(i) ==
    CHOOSE v \in PublishedAfter(i) : \A w \in PublishedAfter(i) : w.Version <= v.Version

(* C12: every present reconcile that returns reports arn, version,           *)
(* version_arn and version_checksum of the version it resolved, whether or   *)
(* not it uploaded or published: the version it published, if it published;  *)
(* otherwise the highest-numbered version that was already published with    *)
(* the local bundle's checksum, which is still published after the call.     *)
C12_ResolvedVersion ==
    \A i \in Calls :
        Reconciled(i)
        => /\ Publishes(i) \in {0, 1}
           /\ Publishes(i) = 1
              => /\ Reports(i, LatestAfter(i))
                 /\ PublishedAfter(i) = PublishedBefore(i) \cup {LatestAfter(i)}
                 /\ LatestAfter(i) \notin PublishedBefore(i)
           /\ Publishes(i) = 0
              => /\ MatchingBefore(i) # {}
                 /\ Reports(i, LatestMatchingBefore(i))
                 /\ PublishedAfter(i) = PublishedBefore(i)

\* C12's case: a reconcile that neither uploaded nor published reported the
\* version it found
C12_Witness ==
    \E i \in Calls :
        /\ Reconciled(i) /\ Puts(i) = 0 /\ Publishes(i) = 0
        /\ ~hist[i].result.changed
        /\ Reports(i, LatestMatchingBefore(i))

\* ... and one that reported a version older than the layer's latest
C12_WitnessOlder ==
    \E i \in Calls :
        /\ Reconciled(i) /\ Publishes(i) = 0
        /\ Reports(i, LatestMatchingBefore(i))
        /\ LatestAfter(i).Version > hist[i].result.version

\* ... and one that reported the version it had just published from its upload
C12_WitnessPublished ==
    \E i \in Calls :
        /\ Reconciled(i) /\ Puts(i) = 1 /\ Publishes(i) = 1
        /\ PublishedBefore(i) # {}
        /\ Reports(i, LatestAfter(i))

-----------------------------------------------------------------------------
\* the stored object a bucket/key/version names in the store, or NoSuchKey:
\* the current one without a version id, else the one that carries the id
Named(store, object_key, object_version) ==
    LET stored == store[object_key]
    IN  IF stored = << >> THEN NoSuchKey
        ELSE IF object_version = None THEN stored[Len(stored)]
        ELSE IF \E j \in 1..Len(stored) : stored[j].VersionId = object_version
             THEN stored[CHOOSE j \in 1..Len(stored) : stored[j].VersionId = object_version]
             ELSE NoSuchKey

\* the three cases of the resolver for one request against the current store
ResolverCases(object_key, object_version, metadata) ==
    LET obj == Named(s3, object_key, object_version)
        got == fetch_s3_checksum(s3, object_key, object_version, metadata)
    IN  /\ obj = NoSuchKey
           => got = [checksum |-> None, downloaded |-> None]
        /\ (obj # NoSuchKey /\ obj.Metadata[metadata] # None)
           => got = [checksum |-> obj.Metadata[metadata], downloaded |-> "False"]
        /\ (obj # NoSuchKey /\ obj.Metadata[metadata] = None)
           => got = [checksum |-> sha256_b64(obj.Body), downloaded |-> "True"]
        /\ got.downloaded = "True"
           <=> (obj # NoSuchKey /\ obj.Metadata[metadata] = None)

C13_WitnessMetadata ==
    \E i \in Calls :
        /\ Reconciled(i)
        /\ hist[i].args.object_version # None
        /\ TargetBefore(i) # NoSuchKey
        /\ TargetBefore(i).Metadata[hist[i].args.metadata] # None
        /\ hist[i].result.downloaded = "False"

\* ... and one found no object
C13_WitnessMissing ==
    \E i \in Calls :
        /\ Reconciled(i)
        /\ TargetBefore(i) = NoSuchKey
        /\ hist[i].result.downloaded = None
        /\ i > 1

-----------------------------------------------------------------------------
\* a manage_lambda_layer(state='present') call without a readable bundle
Unreadable(i) ==
    /\ hist[i].call = "manage_lambda_layer"
    /\ hist[i].args.state = "present"
    /\ hist[i].args.path = None

(* C17: manage_lambda_layer(state='present') without a readable bundle path  *)
(* raises having issued no remote call at all (no list, get, put, publish or *)
(* delete, and none again): the object store, the published versions and    *)
(* the version counters are as they were.                                    *)
C17_FailFast ==
    \A i \in Calls :
        Unreadable(i)
        => /\ hist[i].raised
           /\ hist[i].calls = << >>
           /\ StoreAfter(i) = hist[i].before.s3
           /\ PublishedAfter(i) = PublishedBefore(i)
           /\ CountersAfter(i) = hist[i].before.next_version

\* C17's case: the call without a path came when the bucket held the bundle and
\* the layer had a version, and it raised
C17_Witness ==
    \E i \in Calls :
        /\ Unreadable(i) /\ hist[i].raised
        /\ PublishedBefore(i) # {}
        /\ hist[i].before.s3[hist[i].args.object_key] # << >>

-----------------------------------------------------------------------------
\* the object the upload of call i stored: the current object of the key when
\* the call returned
Uploaded(i) ==
    LET stored == StoreAfter(i)[hist[i].args.object_key]
    IN  stored[Len(stored)]

(* C19: the object_version a present reconcile reports is the version id of  *)
(* the object it uploaded, if it uploaded (None on a bucket without          *)
(* versioning), and otherwise of the object named by its arguments.          *)
C19_ReportedObjectVersion ==
    \A i \in Calls :
        Reconciled(i)
        => hist[i].result.object_version =
             (IF Puts(i) = 1 THEN Uploaded(i).VersionId
              ELSE hist[i].args.object_version)

(* C20: a present reconcile that publishes names the bucket and the key of   *)
(* the request and, as object version, the version id of the object it       *)
(* uploaded in this call if it uploaded (no object version when the bucket   *)
(* gave none), and the object version of the request otherwise.              *)
C20_PublishTarget ==
    \A i \in Calls :
        (Reconciled(i) /\ Publishes(i) = 1)
        => LET content == PublishOf(i).Content
               expected == IF Puts(i) = 1 THEN Uploaded(i).VersionId
                           ELSE hist[i].args.object_version
           IN  /\ content.S3Bucket = hist[i].args.bucket
               /\ content.S3Key = hist[i].args.object_key
               /\ IF expected = None
                  THEN "S3ObjectVersion" \notin DOMAIN content
                  ELSE /\ "S3ObjectVersion" \in DOMAIN content
                       /\ content.S3ObjectVersion = expected

\* C20's case: the request named an object version, the call uploaded a new
\* one and published from the new one
C20_Witness ==
    \E i \in Calls :
        /\ Reconciled(i) /\ Puts(i) = 1 /\ Publishes(i) = 1
        /\ hist[i].args.object_version # None
        /\ Uploaded(i).VersionId # None
        /\ Uploaded(i).VersionId # hist[i].args.object_version
        /\ PublishOf(i).Content.S3ObjectVersion = Uploaded(i).VersionId

\* ... one published from the object version of the request
C20_WitnessNamed ==
    \E i \in Calls :
        /\ Reconciled(i) /\ Puts(i) = 0 /\ Publishes(i) = 1
        /\ hist[i].args.object_version # None
        /\ PublishOf(i).Content.S3ObjectVersion = hist[i].args.object_version

\* ... and one uploaded to a bucket without versioning
C20_WitnessNoToken ==
    \E i \in Calls :
        /\ Reconciled(i) /\ Puts(i) = 1 /\ Publishes(i) = 1
        /\ ~versioning
        /\ "S3ObjectVersion" \notin DOMAIN PublishOf(i).Content

-----------------------------------------------------------------------------
\* a direct call of get_layer_version_info
Looked(i) == hist[i].call = "get_layer_version_info"

\* the versions the lookup is to choose from: all those published under the
\* name, or those with the given checksum
Candidates(i) ==
    {v \in hist[i].before.layers[hist[i].args.name] :
        \/ hist[i].args.local_checksum = None
        \/ v.Content.CodeSha256 = hist[i].args.local_checksum}

(* C14: however the versions of the layer are split into pages, pages that  *)
(* repeat entries included, get_layer_version_info(name, c) returns the      *)
(* version with the highest number among those whose checksum is c, among    *)
(* all versions without c, and nothing when there is none.                   *)
C14_VersionEnumerator ==
    \A i \in Calls :
        Looked(i)
        => /\ ~hist[i].raised
           /\ IF Candidates(i) = {} THEN hist[i].result.layer = NoLayer
              ELSE /\ hist[i].result.layer \in Candidates(i)
                   /\ \A w \in Candidates(i) :
                        w.Version <= hist[i].result.layer.Version

\* C14's case: two versions listed in two pages, the second repeating the
\* first, and the lookup by checksum returned the older version
C14_Witness ==
    \E i \in Calls :
        /\ Looked(i)
        /\ Cardinality(hist[i].before.layers[hist[i].args.name]) = 2
        /\ Len(hist[i].args.pages) = 2
        /\ hist[i].args.pages[1] \cap hist[i].args.pages[2] # {}
        /\ hist[i].args.local_checksum # None
        /\ hist[i].result.layer # NoLayer
        /\ hist[i].result.layer.Version = 1

\* ... a lookup without a checksum found the newest version on the second page
C14_WitnessLatest ==
    \E i \in Calls :
        /\ Looked(i)
        /\ hist[i].args.local_checksum = None
        /\ Len(hist[i].args.pages) = 2
        /\ hist[i].args.pages[1] = {1}
        /\ hist[i].result.layer # NoLayer
        /\ hist[i].result.layer.Version = 2

\* ... and a lookup by a checksum no version has returned nothing
C14_WitnessNothing ==
    \E i \in Calls :
        /\ Looked(i)
        /\ hist[i].before.layers[hist[i].args.name] # {}
        /\ hist[i].args.local_checksum # None
        /\ hist[i].result.layer = NoLayer

-----------------------------------------------------------------------------
\* a run of the aws_lambda_layer module
Ran(i) == hist[i].call = "run_module"

\* ... during which a publish raised after the upload had been made
PublishFailedAfterUpload(i) ==
    /\ Ran(i) /\ hist[i].raised
    /\ hist[i].fault = "publish_layer_version"
    /\ Puts(i) = 1

(* C15: a run during which a remote call raises is reported as failed, with *)
(* a message, and with the result computed up to the failure: changed is     *)
(* true if the upload had been made.                                         *)
C15_PartialResult ==
    \A i \in Calls :
        (Ran(i) /\ hist[i].raised)
        => /\ hist[i].report.exit = "fail_json"
           /\ hist[i].report.failed
           /\ "msg" \in DOMAIN hist[i].report
           /\ hist[i].report.changed = hist[i].result.changed

(* C16: when the publish raises after the upload, the run fails, the         *)
(* uploaded object stays in the bucket as the current object of the key,     *)
(* with its checksum metadata; the failed publish is the last remote call    *)
(* (no delete, no second put), and the published versions and the version    *)
(* counter are as before the run.                                            *)
C16_NoRollback ==
    \A i \in Calls :
        PublishFailedAfterUpload(i)
        => /\ hist[i].report.failed
           /\ StoreAfter(i)[hist[i].args.object_key] # << >>
           /\ Uploaded(i).Body = hist[i].file
           /\ Uploaded(i).Metadata[hist[i].args.metadata] = LocalChecksum(i)
           /\ Deletes(i) = 0
           /\ hist[i].calls[Len(hist[i].calls)].op = "publish_layer_version"
           /\ PositionsOf(i, "put_object") = {Len(hist[i].calls) - 1}
           /\ PublishedAfter(i) = PublishedBefore(i)
           /\ CountersAfter(i) = hist[i].before.next_version

\* C16's case: bundle B was uploaded over A, the publish of B raised, and B
\* stayed in the bucket while the layer kept its one version
C16_Witness ==
    \E i \in Calls :
        /\ PublishFailedAfterUpload(i)
        /\ hist[i].before.s3[hist[i].args.object_key] # << >>
        /\ Uploaded(i).Body = hist[i].file
        /\ StoreAfter(i) # hist[i].before.s3
        /\ Cardinality(PublishedAfter(i)) = 1

-----------------------------------------------------------------------------
\* a run of the layer_search module whose list request was answered
Searched(i) == hist[i].call = "layer_search" /\ ~hist[i].fault

(* C18: layer_search ends in the failed outcome when the name has no         *)
(* version, and otherwise succeeds with found = true, a version and an arn.  *)
C18_LayerSearch ==
    \A i \in Calls :
        Searched(i)
        => IF hist[i].before.layers[hist[i].args.name] = {}
           THEN hist[i].report.exit = "fail_json" /\ hist[i].report.failed
           ELSE /\ hist[i].report.exit = "exit_json"
                /\ ~hist[i].report.failed
                /\ hist[i].report.found
                /\ {"version", "arn"} \subseteq DOMAIN hist[i].report

-----------------------------------------------------------------------------
\* a manage_lambda_layer call, present or absent, that returned
Managed(i) ==
    /\ hist[i].call = "manage_lambda_layer"
    /\ ~hist[i].raised

\* the remote systems are after call i exactly as they were before it
Untouched(i) ==
    /\ StoreAfter(i) = hist[i].before.s3
    /\ PublishedAfter(i) = PublishedBefore(i)
    /\ CountersAfter(i) = hist[i].before.next_version

(* C25: a manage_lambda_layer call that returns reports changed = true if    *)
(* and only if it issued a put, a publish or a delete; having reported       *)
(* changed = false, it has left the object store and the published versions  *)
(* exactly as they were.                                                     *)
C25_ChangedMirrorsMutation ==
    \A i \in Calls :
        Managed(i)
        => /\ hist[i].result.changed <=> (Puts(i) + Publishes(i) + Deletes(i) > 0)
           /\ ~hist[i].result.changed => Untouched(i)

\* C25's case: a reconcile published without uploading and reported the change
C25_Witness ==
    \E i \in Calls :
        /\ Managed(i) /\ hist[i].args.state = "present"
        /\ Puts(i) = 0 /\ Publishes(i) = 1
        /\ hist[i].result.changed
        /\ ~Untouched(i)

\* ... one found everything in place and reported no change
C25_WitnessUnchanged ==
    \E i \in Calls :
        /\ Managed(i) /\ hist[i].args.state = "present"
        /\ Puts(i) + Publishes(i) = 0
        /\ ~hist[i].result.changed
        /\ Untouched(i)
        /\ hist[i].result.downloaded = "True"

\* ... and an absent reconcile deleted a version and reported the change
C25_WitnessAbsent ==
    \E i \in Calls :
        /\ Managed(i) /\ hist[i].args.state = "absent"
        /\ Deletes(i) = 1
        /\ hist[i].result.changed

-----------------------------------------------------------------------------
\* the published versions after call i whose checksum is the local bundle's
MatchingAfter(i) ==
    {v \in PublishedAfter(i) : v.Content.CodeSha256 = LocalChecksum(i)}

(* C26: when no object stored before the call carried a checksum other than  *)
(* that of its bytes, a present reconcile that returns reports the local     *)
(* bundle's checksum as version_checksum and the highest number among the    *)
(* existing versions with that checksum as version, and that version has the *)
(* requested runtime list.                                                   *)
C26_PresentPostcondition ==
    \A i \in Calls :
        (Reconciled(i) /\ HonestUpTo(i))
        => /\ hist[i].result.version_checksum = LocalChecksum(i)
           /\ MatchingAfter(i) # {}
           /\ \A v \in MatchingAfter(i) :
                /\ v.Version <= hist[i].result.version
                /\ v.Version = hist[i].result.version
                   => RuntimesOf(v) = hist[i].args.runtimes
           /\ hist[i].result.version \in VersionNumbers(MatchingAfter(i))

\* C26's case: after versions with other runtimes and another bundle, the
\* reconcile republished the bundle with the requested runtimes
C26_Witness ==
    \E i \in Calls :
        /\ Reconciled(i) /\ HonestUpTo(i)
        /\ Cardinality(MatchingAfter(i)) = 2
        /\ hist[i].args.runtimes # << >>
        /\ hist[i].result.version = 3
        /\ hist[i].result.version_checksum = LocalChecksum(i)

\* ... and one returned an older version while a newer one had another checksum
C26_WitnessOlder ==
    \E i \in Calls :
        /\ Reconciled(i) /\ HonestUpTo(i)
        /\ Publishes(i) = 0
        /\ hist[i].result.version = 1
        /\ Cardinality(PublishedAfter(i)) = 2

-----------------------------------------------------------------------------
\* the current object of the call's key when the call returned holds the bundle
StoredMatchesBundle(i) ==
    /\ StoreAfter(i)[hist[i].args.object_key] # << >>
    /\ sha256_b64(Uploaded(i).Body) = LocalChecksum(i)

\* the object the call finds under its key carries, under the call's metadata
\* key, no checksum or the checksum of its bytes
HonestTarget(i) ==
    \/ TargetBefore(i) = NoSuchKey
    \/ TargetBefore(i).Metadata[hist[i].args.metadata]
         \in {None, sha256_b64(TargetBefore(i).Body)}

(* C27, as stated: after a present reconcile without an object version that  *)
(* returns, the current object of the key has the bytes of the local bundle, *)
(* whatever the bucket held before, an object with a checksum in its         *)
(* metadata that is not the checksum of its bytes included.                  *)
C27_StoredMatchesBundle ==
    \A i \in Calls :
        (Reconciled(i) /\ hist[i].args.object_version = None)
        => StoredMatchesBundle(i)

(* C27, amended: the same, provided the object found under the key carries,  *)
(* under the metadata key of the call, no checksum or the checksum of its    *)
(* bytes.                                                                    *)
C27_StoredMatchesBundleHonest ==
    \A i \in Calls :
        (Reconciled(i) /\ hist[i].args.object_version = None /\ HonestTarget(i))
        => StoredMatchesBundle(i)

\* C27's case: the bucket held another bundle, put there without metadata by
\* another actor, and the reconcile replaced it
C27_Witness ==
    \E i \in Calls :
        /\ Reconciled(i) /\ hist[i].args.object_version = None
        /\ i > 1 /\ hist[i - 1].call = "put_object"
        /\ TargetBefore(i) # NoSuchKey
        /\ HonestTarget(i)
        /\ sha256_b64(TargetBefore(i).Body) # LocalChecksum(i)
        /\ Puts(i) = 1
        /\ StoredMatchesBundle(i)

\* ... and one found the bundle already there, under a checksum that another
\* metadata key did not match, and left it
C27_WitnessKept ==
    \E i \in Calls :
        /\ Reconciled(i) /\ hist[i].args.object_version = None
        /\ TargetBefore(i) # NoSuchKey
        /\ HonestTarget(i) /\ ~HonestObject(TargetBefore(i))
        /\ Puts(i) = 0
        /\ StoredMatchesBundle(i)

-----------------------------------------------------------------------------
\* a destroy_layer call during which a delete raised
Interrupted(i) == hist[i].call = "destroy_layer" /\ hist[i].raised

\* the version numbers whose delete had succeeded before the one that raised
DeletedBeforeFailure(i) ==
    {hist[i].calls[j].VersionNumber :
        j \in PositionsOf(i, "delete_layer_version") \ {Len(hist[i].calls)}}

(* C22: when a delete raises inside destroy_layer, the error leaves the      *)
(* function, the raising delete is its last remote call, the versions        *)
(* deleted before it are gone and all others, the one of the raising delete  *)
(* included, still exist; a destroy_layer that follows and succeeds leaves   *)
(* no version and returns true.                                              *)
C22_PartialDestroy ==
    \A i \in Calls :
        Interrupted(i)
        => /\ hist[i].calls[Len(hist[i].calls)].op = "delete_layer_version"
           /\ Deletes(i) = Cardinality(DeletedBy(i))
           /\ PublishedAfter(i) =
                {v \in PublishedBefore(i) : v.Version \notin DeletedBeforeFailure(i)}
           /\ hist[i].calls[Len(hist[i].calls)].VersionNumber
                \in VersionNumbers(PublishedAfter(i))
           /\ (i < Len(hist) /\ hist[i + 1].call = "destroy_layer"
                  /\ ~hist[i + 1].raised)
              => /\ PublishedAfter(i + 1) = {}
                 /\ hist[i + 1].result.returned

\* C22's case: of two versions the newer was deleted, the delete of the older
\* raised, and the next destroy_layer removed the older and returned true
C22_Witness ==
    \E i \in Calls :
        /\ Interrupted(i)
        /\ VersionNumbers(PublishedBefore(i)) = {1, 2}
        /\ DeletedBeforeFailure(i) = {2}
        /\ VersionNumbers(PublishedAfter(i)) = {1}
        /\ i < Len(hist) /\ hist[i + 1].call = "destroy_layer"
        /\ ~hist[i + 1].raised
        /\ hist[i + 1].result.returned
        /\ DeletedBy(i + 1) = {1}
        /\ PublishedAfter(i + 1) = {}

-----------------------------------------------------------------------------
\* the retry loop has been entered / has ended
Retrying == frames # << >> /\ "attempts" \in DOMAIN frames[1]
RetryEnded == Retrying /\ frames[1].pc \in {"done", "raised"}

\* what holds of the loop at every moment
RetryBounded ==
    Retrying
    => LET f == frames[1]
       IN  /\ f.attempts <= MaxAttempts
           /\ \A j \in 1..Len(f.log) : f.log[j] \in ClientErrors
           /\ f.pc = "create_function"
              => f.attempts = Len(f.log) /\ f.slept = SleepSeconds * Len(f.log)
           /\ f.pc = "sleep"
              => f.attempts = Len(f.log) /\ f.slept = SleepSeconds * (Len(f.log) - 1)
           /\ f.pc = "done"
              => /\ f.attempts = Len(f.log) + 1
                 /\ f.slept = SleepSeconds * Len(f.log)
                 /\ f.error = None
           /\ f.pc = "raised"
              => /\ f.slept = SleepSeconds * Len(f.log)
                 /\ IF Len(f.log) = MaxAttempts
                    THEN f.attempts = MaxAttempts /\ f.error = "Too many attempts"
                    ELSE f.attempts = Len(f.log) + 1 /\ f.error \in OtherErrors
           /\ f.pc \notin {"raised"} => f.error = None

(* C23: the loop calls create_function at most 6 times; it calls it again    *)
(* only after a client error, and after the fixed sleep that follows every   *)
(* client error; once the function is created, or another error is raised,   *)
(* nothing more is attempted; and it raises 'Too many attempts' if and only  *)
(* if all 6 calls ended in a client error.                                   *)
C23_BoundedRetry ==
    /\ []RetryBounded
    /\ [][RetryEnded => UNCHANGED frames]_vars
    /\ [][(Retrying /\ frames'[1].attempts # frames[1].attempts)
            => /\ frames[1].pc = "create_function"
               /\ frames'[1].attempts = frames[1].attempts + 1]_vars

\* C23's case: six client errors, six sleeps, and the loop gave up
C23_Witness ==
    /\ RetryEnded
    /\ frames[1].attempts = MaxAttempts
    /\ Len(frames[1].log) = MaxAttempts
    /\ frames[1].slept = SleepSeconds * MaxAttempts
    /\ frames[1].error = "Too many attempts"

\* ... the sixth call created the function
C23_WitnessLastAttempt ==
    /\ RetryEnded
    /\ frames[1].pc = "done"
    /\ frames[1].attempts = MaxAttempts

\* ... and another error ended the loop at the second call
C23_WitnessOtherError ==
    /\ RetryEnded
    /\ frames[1].pc = "raised"
    /\ frames[1].attempts = 2
    /\ frames[1].error \in OtherErrors

-----------------------------------------------------------------------------
\* a marker walk is under way
Walking == frames # << >> /\ "requests" \in DOMAIN frames[1]

\* a call whose marker walk was recorded request by request
Walked(i) ==
    /\ hist[i].call \in WalkingFunctions
    /\ "requests" \in DOMAIN hist[i].args

\* the version numbers on the first n pages of a chain
OnPages(pages, n) == UNION {pages[j] : j \in 1..n}

\* during the walk: the pages 1, 2, ... have been requested, once each and in
\* this order, and the version numbers on them are what has been accumulated
WalkCovers ==
    /\ Walking
       => /\ frames[1].requests = [j \in 1..Len(frames[1].requests) |-> j]
          /\ Len(frames[1].requests) <= Len(frames[1].pages)
          /\ frames[1].versions = OnPages(frames[1].pages, Len(frames[1].requests))
    /\ \A i \in Calls :
        Walked(i)
        => /\ hist[i].args.requests = [j \in 1..Len(hist[i].args.pages) |-> j]
           /\ hist[i].args.versions =
                OnPages(hist[i].args.pages, Len(hist[i].args.pages))
           /\ hist[i].args.versions =
                marker_walk(hist[i].args.pages,
                            list_layer_versions(hist[i].args.pages, 1), {})
           /\ hist[i].call = "destroy_layer"
              => /\ DeletedBy(i) = hist[i].args.versions
                 /\ hist[i].result.returned = (hist[i].args.versions # {})

(* C21: the listing loop of get_layer_version_info and of destroy_layer       *)
(* requests the next page exactly while the last response carried a marker:   *)
(* each page of the chain is requested once, in order, the walk ends after    *)
(* the last page with every version number of every page accumulated, and     *)
(* the function then completes.                                               *)
C21_MarkerWalk ==
    /\ []WalkCovers
    /\ [][(Walking /\ frames' # << >>
             /\ Len(frames'[1].requests) > Len(frames[1].requests))
            => Len(frames[1].requests) < Len(frames[1].pages)]_vars
    /\ [][(Walking /\ frames' = << >>)
            => /\ Len(frames[1].requests) = Len(frames[1].pages)
               /\ Len(hist') = Len(hist) + 1]_vars
    /\ (Walking ~> ~Walking)

\* C21's case: destroy_layer walked three pages, the third repeating a number
\* of the first, and deleted the two versions
C21_Witness ==
    \E i \in Calls :
        /\ Walked(i) /\ hist[i].call = "destroy_layer"
        /\ hist[i].args.requests = <<1, 2, 3>>
        /\ hist[i].args.pages[1] \cap hist[i].args.pages[3] # {}
        /\ hist[i].args.pages[2] # hist[i].args.pages[1]
        /\ hist[i].args.versions = {1, 2}
        /\ DeletedBy(i) = {1, 2}

\* ... and get_layer_version_info found the newest version on the last of
\* three pages, after an empty one
C21_WitnessLookup ==
    \E i \in Calls :
        /\ Walked(i) /\ hist[i].call = "get_layer_version_info"
        /\ hist[i].args.pages = <<{1}, {}, {2}>>
        /\ hist[i].args.requests = <<1, 2, 3>>
        /\ hist[i].result.layer # NoLayer
        /\ hist[i].result.layer.Version = 2

-----------------------------------------------------------------------------
\* reconcile p made a call of the kind
Made(p, op) == \E j \in 1..Len(frames[p].calls) : frames[p].calls[j].op = op

\* both reconciles have returned; they were given the same name, bundle and
\* runtimes, and the name had no version when the first of them started
SamePair ==
    /\ Len(frames) = 2
    /\ \A p \in 1..2 : "after" \in DOMAIN frames[p] /\ frames[p].pc = "done"
    /\ frames[1].args.name = frames[2].args.name
    /\ frames[1].file = frames[2].file
    /\ frames[1].args.runtimes = frames[2].args.runtimes
    /\ frames[1].before.layers[frames[1].args.name] = {}

\* the second started when the first had returned
Sequential == 1 \in frames[2].after

\* both published: two versions with one checksum, both calls report a change
\* and another version number each
BothPublished ==
    /\ \A p \in 1..2 : Made(p, "publish_layer_version") /\ frames[p].result.changed
    /\ frames[1].result.version # frames[2].result.version
    /\ frames[1].result.version_checksum = frames[2].result.version_checksum
    /\ \A p \in 1..2 :
        \E v \in layers[frames[p].args.name] :
            /\ v.Version = frames[p].result.version
            /\ v.Content.CodeSha256 = frames[p].result.version_checksum

\* no object in the bucket carried a wrong checksum when the first started
HonestStart ==
    \A k \in Keys : \A j \in 1..Len(frames[1].before.s3[k]) :
        HonestObject(frames[1].before.s3[k][j])

(* C24, as stated: two present reconciles of one name with the same bundle   *)
(* and runtimes, run one after the other from a name without versions,       *)
(* never both publish.                                                       *)
C24_SequentialNeverBoth ==
    (SamePair /\ Sequential) => ~BothPublished

(* C24, amended: ... run one after the other from a name without versions    *)
(* and a bucket in which no object carries a checksum other than that of its *)
(* bytes, never both publish: the second publishes nothing and reports the   *)
(* version of the first.  (That they can both publish when their remote      *)
(* calls interleave is what C24_Witness shows.)                              *)
C24_SequentialNeverBothHonest ==
    (SamePair /\ Sequential /\ HonestStart)
    => /\ ~BothPublished
       /\ Made(1, "publish_layer_version")
       /\ ~Made(2, "publish_layer_version")
       /\ frames[2].result.version = frames[1].result.version

\* C24's case: the remote calls of the two interleaved, both published, and
\* the name has two versions with the checksum of the one bundle
C24_Witness ==
    /\ SamePair /\ ~Sequential /\ HonestStart
    /\ BothPublished
    /\ Cardinality({v \in layers[frames[1].args.name] :
                      v.Content.CodeSha256 = frames[1].local_checksum}) = 2

\* ... and run one after the other, the second found the version of the first
C24_WitnessSequential ==
    /\ SamePair /\ Sequential /\ HonestStart
    /\ ~Made(2, "publish_layer_version")
    /\ ~frames[2].result.changed
    /\ Cardinality(layers[frames[1].args.name]) = 1

====
